---- MODULE Spec2Model ----
(***************************************************************************)
(* Model of the chat-session / context manager of Cortex-AI:               *)
(*   src/hooks/useChatHistory.ts  (session store, context selector,        *)
(*                                 session assembler, load/save effects)   *)
(*   src/MainApp.tsx              (UI handlers that drive the hook)        *)
(*   src/services/geminiService.ts (getAi / createChatSession)             *)
(*   src/unnamed/part_001         (PromptInput.handleSend)                 *)
(*   src/hooks/useAuth.ts         (users list, signUp, Google sign-in)     *)
(*                                                                         *)
(* Conventions.                                                            *)
(*  - A text is a sequence of one-character strings, so that length,       *)
(*    substring and trim are computed and not assumed.                     *)
(*  - Session ids are Date.now().toString(); toString is injective on the  *)
(*    clock readings and ids are only compared for equality, so an id is   *)
(*    modelled by the reading itself.  null is NullId (no reading is 0).   *)
(*  - An optional property of a message reads as undefined both when it is *)
(*    missing and when it was stored as undefined; JSON.stringify drops    *)
(*    the latter, JSON.parse leaves it missing.  The model keeps the value *)
(*    a read yields, so on the data of this program the JSON round trip    *)
(*    changes nothing; what a load does beyond parsing (filter, sort) is   *)
(*    modelled step by step.                                               *)
(*  - One action is one event handler together with the re-render it       *)
(*    causes and the effects of that render (save effect, recreate         *)
(*    effect).  The mount is split in two steps because its first effect   *)
(*    pass runs with the state of the first render.                        *)
(***************************************************************************)
EXTENDS Integers, Sequences, FiniteSets, TLC

VARIABLES
    clock,              \* last value returned by Date.now()
    storage,            \* localStorage['cortex-chat-history']
    pc,                 \* "auth" | "mount" | "rerender" | "ready"
    userId,             \* prop user.id of the mounted MainApp
    sessions,           \* useState<StoredChatSession[]>
    activeSessionId,    \* useState<string | null>
    contextSessionIds,  \* useState<Set<string>>
    geminiSession,      \* useState<GeminiChatSession | null>
    apiKey,             \* getEffectiveApiKey() is non-null
    webSearchEnabled,   \* MainApp useState(false)
    isLoading,          \* MainApp useState(false)
    mode,               \* MainApp useState<AppMode>('chat')
    gen,                \* the generation in flight (closure of handleSendMessage)
    late,               \* a send prepared in an earlier render, and its generation
    writable,           \* environment: localStorage.setItem succeeds
    lastSave,           \* outcome of the last run of the save effect
    tab,                \* a second tab of the same browser: its own hook state
    auth,               \* useAuth: localStorage['cortex-users'], user, authError
    lastOp              \* the handler that ran last (observation only)

vars == <<clock, storage, pc, userId, sessions, activeSessionId,
          contextSessionIds, geminiSession, apiKey, webSearchEnabled,
          isLoading, mode, gen, late, writable, lastSave, tab, auth, lastOp>>

----------------------------------------------------------------------------
(* Bounds of the model *)

MaxClock == 3
MaxSessions == 3
\* messages held by the in-memory collection, welcome messages included
MaxMessages == 5

\* The user who signs in, and another user of the same browser
User == "u1"
OtherUser == "u2"

----------------------------------------------------------------------------
(* Values *)

NullId == 0

NewChatTitle == <<"N", "e", "w", " ", "C", "h", "a", "t">>

\* "Hello! I'm Cortex, your AI assistant. ..." (abbreviated; never inspected)
WelcomeText == <<"H", "e", "l", "l", "o", "!">>

TextPart(t) == [kind |-> "text", text |-> t]

\* generationProgress of a message that has none
NoProgress == "none"

\* Date.now() at module evaluation, before any handler runs
WelcomeTimestamp == 0

WELCOME_MESSAGE ==
    [role |-> "model",
     parts |-> <<TextPart(WelcomeText)>>,
     displayParts |-> <<TextPart(WelcomeText)>>,
     timestamp |-> WelcomeTimestamp,
     isError |-> FALSE,
     isGenerating |-> FALSE, generationProgress |-> NoProgress]

NullSession == [live |-> FALSE, history |-> <<>>, webSearch |-> FALSE]

\* useState<User | null>(null)
NoUser == [id |-> NullId, email |-> <<>>, password |-> <<>>, isGoogleUser |-> FALSE]

\* useState<string | null>(null)
NoAuthError == "null"

\* Nobody has signed up in this browser
NoAuth == [users |-> <<>>, user |-> NoUser, authError |-> NoAuthError]

\* No send is waiting in PromptInput.handleSend
NoLate == [state |-> "none", target |-> NullId, timestamp |-> 0, text |-> <<>>]

\* The second tab before it is opened
ClosedTab == [pc |-> "closed", sessions |-> <<>>]

NoGen == [kind |-> "none", target |-> NullId, timestamp |-> 0, text |-> <<>>]

\* A reading of Date.now() after the reading c: the clock never runs
\* backwards, and two readings may fall in the same millisecond.
Readings(c) == {t \in {c, c + 1} : t <= MaxClock}

----------------------------------------------------------------------------
(* Sequence helpers *)

Ids(ss) == {ss[i].id : i \in 1..Len(ss)}

WithId(ss, id) == SelectSeq(ss, LAMBDA s : s.id = id)

WithoutId(ss, id) == SelectSeq(ss, LAMBDA s : s.id # id)

OwnedBy(ss, u) == SelectSeq(ss, LAMBDA s : s.userId = u)

NotOwnedBy(ss, u) == SelectSeq(ss, LAMBDA s : s.userId # u)

\* Array.prototype.sort((a, b) => b.createdAt - a.createdAt): stable,
\* descending by createdAt.
RECURSIVE InsertDesc(_, _)
InsertDesc(s, sorted) ==
    IF sorted = <<>> THEN <<s>>
    ELSE IF Head(sorted).createdAt >= s.createdAt
         THEN <<Head(sorted)>> \o InsertDesc(s, Tail(sorted))
         ELSE <<s>> \o sorted

RECURSIVE SortDesc(_)
SortDesc(ss) ==
    IF ss = <<>> THEN <<>>
    ELSE InsertDesc(ss[Len(ss)], SortDesc(SubSeq(ss, 1, Len(ss) - 1)))

RECURSIVE TotalMessages(_)
TotalMessages(ss) ==
    IF ss = <<>> THEN 0 ELSE Len(Head(ss).messages) + TotalMessages(Tail(ss))

----------------------------------------------------------------------------
(* useChatHistory: session store *)

\* Variant: a new session without the seeded welcome message
NewSessionUnseeded(idT, createdT, u) ==
    [id |-> idT,
     title |-> NewChatTitle,
     messages |-> <<>>,
     createdAt |-> createdT,
     userId |-> u]

NewSession(idT, createdT, u) ==
    [id |-> idT,
     title |-> NewChatTitle,
     messages |-> <<WELCOME_MESSAGE>>,
     createdAt |-> createdT,
     userId |-> u]

\* Variant: the fallback leaves the collection empty
InitialSessionsNone(newSession) == <<>>

\* startNewChat(true): setSessions([newSession])
InitialSessions(newSession) == <<newSession>>

\* Variant: the new session goes to the end
AppendSession(newSession, prev) == prev \o <<newSession>>

\* startNewChat(false): setSessions(prev => [newSession, ...prev])
PrependSession(newSession, prev) == <<newSession>> \o prev

\* The save effect: read-merge-write of the whole document.  Any failure
\* (getItem, JSON.parse, filter on a non-array, setItem) is caught and the
\* document is left as it is.
\* Variant: the write holds the user's sessions only
SaveDocOwnOnly(st, ss, u) == [readable |-> TRUE, doc |-> ss]

\* Variant: the user's old entries are not filtered out
SaveDocKeepingOld(st, ss, u) == [readable |-> TRUE, doc |-> st.doc \o ss]

SaveDoc(st, ss, u) == [readable |-> TRUE, doc |-> NotOwnedBy(st.doc, u) \o ss]

\* Variant: the effect does not write
SaveEffectSkipped(st, ss, u, writeOk) == st

SaveEffect(st, ss, u, writeOk) ==
    IF st.readable /\ writeOk THEN SaveDoc(st, ss, u) ELSE st

SaveOutcome(st, writeOk) ==
    IF st.readable /\ writeOk THEN "written" ELSE "failed"

\* The load effect up to the choice of branch: the user's stored sessions,
\* newest first.
\* Variant: the comparator reversed (oldest first)
LoadSortedAscending(st, u) ==
    LET sorted == SortDesc(OwnedBy(st.doc, u))
    IN  [i \in 1..Len(sorted) |-> sorted[Len(sorted) + 1 - i]]

LoadSorted(st, u) == SortDesc(OwnedBy(st.doc, u))

LoadFallsBack(st, u) == ~st.readable \/ Len(OwnedBy(st.doc, u)) = 0

----------------------------------------------------------------------------
(* useChatHistory: session assembler *)

ToContent(msg) == [role |-> msg.role, parts |-> msg.parts]

MapContent(msgs) == [i \in 1..Len(msgs) |-> ToContent(msgs[i])]

\* Variant: slice(0), the welcome message is kept
Slice0(msgs) == msgs

\* messages.slice(1)
Slice1(msgs) == IF msgs = <<>> THEN <<>> ELSE Tail(msgs)

\* contextSessions.flatMap(s => s.messages.slice(1))
RECURSIVE FlatMapSlice1(_)
FlatMapSlice1(ss) ==
    IF ss = <<>> THEN <<>>
    ELSE Slice1(Head(ss).messages) \o FlatMapSlice1(Tail(ss))

\* Variant: [...activeHistory, ...contextHistory]
CombinedHistoryActiveFirst(targetSessionId, allSessions, currentContextIds) ==
    LET contextSessions == SelectSeq(allSessions, LAMBDA s : s.id \in currentContextIds)
        activeSession == Head(WithId(allSessions, targetSessionId))
        contextHistory == MapContent(FlatMapSlice1(contextSessions))
        activeHistory == MapContent(Slice1(activeSession.messages))
    IN  activeHistory \o contextHistory

CombinedHistory(targetSessionId, allSessions, currentContextIds) ==
    LET contextSessions == SelectSeq(allSessions, LAMBDA s : s.id \in currentContextIds)
        activeSession == Head(WithId(allSessions, targetSessionId))
        contextHistory == MapContent(FlatMapSlice1(contextSessions))
        activeHistory == MapContent(Slice1(activeSession.messages))
    IN  contextHistory \o activeHistory

\* Variant: the catch leaves the previous handle in place
RecreateGeminiSessionKeepingHandle(targetSessionId, allSessions, currentContextIds, isWebSearchEnabled, key, old) ==
    IF WithId(allSessions, targetSessionId) = <<>> THEN old
    ELSE IF ~key THEN old
    ELSE [live |-> TRUE,
          history |-> CombinedHistory(targetSessionId, allSessions, currentContextIds),
          webSearch |-> isWebSearchEnabled]

\* getAi() throws when no key is configured; the catch sets the handle to null
RecreateGeminiSession(targetSessionId, allSessions, currentContextIds, isWebSearchEnabled, key, old) ==
    IF WithId(allSessions, targetSessionId) = <<>> THEN old
    ELSE IF ~key THEN NullSession
    ELSE [live |-> TRUE,
          history |-> CombinedHistory(targetSessionId, allSessions, currentContextIds),
          webSearch |-> isWebSearchEnabled]

\* Variant: the effect builds a handle only when there is none
RecreateEffectOnce(active, ss, ctx, web, key, old) ==
    IF active # NullId /\ Len(ss) > 0 /\ ~old.live
    THEN RecreateGeminiSession(active, ss, ctx, web, key, old)
    ELSE old

\* The recreate effect of a render with the given state
RecreateEffect(active, ss, ctx, web, key, old) ==
    IF active # NullId /\ Len(ss) > 0
    THEN RecreateGeminiSession(active, ss, ctx, web, key, old)
    ELSE old

----------------------------------------------------------------------------
(* String helpers *)

\* White space of String.prototype.trim (the characters the inputs use)
WhiteSpace == {" ", "\t", "\n"}

\* String.prototype.trim
RECURSIVE TrimStart(_)
TrimStart(t) ==
    IF t # <<>> /\ Head(t) \in WhiteSpace THEN TrimStart(Tail(t)) ELSE t

RECURSIVE TrimEnd(_)
TrimEnd(t) ==
    IF t # <<>> /\ t[Len(t)] \in WhiteSpace THEN TrimEnd(SubSeq(t, 1, Len(t) - 1)) ELSE t

Trim(t) == TrimEnd(TrimStart(t))

----------------------------------------------------------------------------
(* useChatHistory: active session controller *)

MAX_TITLE_LENGTH == 35

Ellipsis == <<".", ".", ".">>

UserMessages(msgs) == SelectSeq(msgs, LAMBDA m : m.role = "user")

\* displayParts.find(p => p.text)?.text
FirstText(parts) ==
    LET withText == SelectSeq(parts, LAMBDA p : p.kind = "text" /\ p.text # <<>>)
    IN  IF withText = <<>> THEN <<>> ELSE Head(withText).text

\* Variant: substring without the ellipsis
generateTitleNoEllipsis(messages) ==
    LET users == UserMessages(messages)
        found == IF users = <<>> THEN <<>> ELSE FirstText(Head(users).displayParts)
        firstText == IF found = <<>> THEN NewChatTitle ELSE found
    IN  IF Len(firstText) > MAX_TITLE_LENGTH
        THEN SubSeq(firstText, 1, MAX_TITLE_LENGTH)
        ELSE firstText

generateTitle(messages) ==
    LET users == UserMessages(messages)
        found == IF users = <<>> THEN <<>> ELSE FirstText(Head(users).displayParts)
        firstText == IF found = <<>> THEN NewChatTitle ELSE found
    IN  IF Len(firstText) > MAX_TITLE_LENGTH
        THEN SubSeq(firstText, 1, MAX_TITLE_LENGTH) \o Ellipsis
        ELSE firstText

\* newHistory[newHistory.length - 1] = currentResponse
ReplaceLast(msgs, m) ==
    IF msgs = <<>> THEN msgs ELSE [msgs EXCEPT ![Len(msgs)] = m]

\* Variant: the placeholder is dropped and nothing takes its place
DropLastOnly(msgs, m) ==
    IF msgs = <<>> THEN <<>> ELSE SubSeq(msgs, 1, Len(msgs) - 1)

\* [...prev.slice(0, -1), errorMessage]
DropLastAppend(msgs, m) ==
    IF msgs = <<>> THEN <<m>> ELSE SubSeq(msgs, 1, Len(msgs) - 1) \o <<m>>

\* The updaters the callers pass: prev => [...prev, ...msgs], and the two
\* replacements of the last message
Appending(msgs) == [kind |-> "append", msgs |-> msgs]

ReplacingLast(m) == [kind |-> "replaceLast", msgs |-> <<m>>]

DroppingLastAppending(m) == [kind |-> "dropLastAppend", msgs |-> <<m>>]

\* prev.map(msg => msg.timestamp === loadingTimestamp ? { ...msg, generationProgress: status } : msg)
MapProgress(msgs, ts, status) ==
    [k \in 1..Len(msgs) |->
        IF msgs[k].timestamp = ts THEN [msgs[k] EXCEPT !.generationProgress = status]
        ELSE msgs[k]]

\* prev.map(msg => msg.timestamp === loadingTimestamp ? response : msg)
MapReplace(msgs, ts, m) ==
    [k \in 1..Len(msgs) |-> IF msgs[k].timestamp = ts THEN m ELSE msgs[k]]

\* The updaters of the video branch, which find the placeholder by timestamp
SettingProgress(ts, status) ==
    [kind |-> "mapProgress", msgs |-> <<>>, ts |-> ts, status |-> status]

ReplacingByTimestamp(ts, m) == [kind |-> "mapReplace", msgs |-> <<m>>, ts |-> ts]

\* updater(oldMessages)
Updater(updater, prev) ==
    CASE updater.kind = "append" -> prev \o updater.msgs
      [] updater.kind = "replaceLast" -> ReplaceLast(prev, updater.msgs[1])
      [] updater.kind = "dropLastAppend" -> DropLastAppend(prev, updater.msgs[1])
      [] updater.kind = "mapProgress" -> MapProgress(prev, updater.ts, updater.status)
      [] updater.kind = "mapReplace" -> MapReplace(prev, updater.ts, updater.msgs[1])

\* updateSessionMessages(sessionId, updater), as a function of prevSessions
UpdateSessionMessages(ss, sessionId, updater) ==
    [i \in 1..Len(ss) |->
        IF ss[i].id = sessionId
        THEN LET newMessages == Updater(updater, ss[i].messages)
             IN  [ss[i] EXCEPT
                    !.messages = newMessages,
                    !.title = IF Len(UserMessages(newMessages)) = 1 /\ @ = NewChatTitle
                              THEN generateTitle(newMessages)
                              ELSE @]
        ELSE ss[i]]

\* setActiveChatHistory of the render in which activeSessionId was `active`
SetActiveChatHistory(ss, active, updater) ==
    IF active # NullId THEN UpdateSessionMessages(ss, active, updater) ELSE ss

----------------------------------------------------------------------------
(* Inputs *)

\* Titles typed into the sidebar's edit box
TitleInputs == {<<" ">>, <<" ", "a", " ">>}

\* Titles of the rename checks: blank ones, one with white space around
\* and inside, and the default title typed by hand
RenameInputs ==
    {<<" ", "\t">>,
     <<"\n", "a", " ", "b", "\t">>,
     <<"N", "e", "w", " ", "C", "h", "a", "t">>}

\* An attachment: a part without text
ImagePart == [kind |-> "image", text |-> <<>>]

UserMessage(displayParts, ts) ==
    [role |-> "user", parts |-> displayParts, displayParts |-> displayParts,
     timestamp |-> ts, isError |-> FALSE, isGenerating |-> FALSE, generationProgress |-> NoProgress]

\* A text of n characters
TextOfLength(n) == [i \in 1..n |-> IF i = n THEN "z" ELSE "x"]

HelloWorld == <<"h", "e", "l", "l", "o", " ", "w", "o", "r", "l", "d">>

\* First messages of the auto-title checks: a text one character over the
\* limit, one at the limit, a short one, an attachment alone, an empty
\* text part before a text, and a reply of the model
TitleMessageInputs ==
    {UserMessage(<<TextPart(TextOfLength(MAX_TITLE_LENGTH + 1))>>, 3),
     UserMessage(<<TextPart(TextOfLength(MAX_TITLE_LENGTH))>>, 3),
     UserMessage(<<TextPart(HelloWorld)>>, 3),
     UserMessage(<<ImagePart>>, 3),
     UserMessage(<<TextPart(<<>>), ImagePart, TextPart(<<"o", "k">>)>>, 3),
     [role |-> "model", parts |-> <<TextPart(<<"H", "i">>)>>,
      displayParts |-> <<TextPart(<<"H", "i">>)>>, timestamp |-> 4,
      isError |-> FALSE, isGenerating |-> FALSE, generationProgress |-> NoProgress]}

\* Ids passed to toggleContextSession: any string, also one of no session
ToggleIds == 1..(MaxClock + 1)

\* What the prompt sends: (userMessageParts, displayParts)
UserInputs ==
    {[parts |-> <<TextPart(<<"h", "i">>)>>, displayParts |-> <<TextPart(<<"h", "i">>)>>]}

\* chunk.text of a streamed chunk: cumulative text, or none
ChunkTexts == {<<>>, <<"H", "i">>, <<"H", "i", "!">>}

----------------------------------------------------------------------------
(* Initial state: the page is loaded, nobody is signed in yet.  The stored
   document is unreadable, or absent, or was written by earlier visits: a
   chat of the other user of this browser, and two chats of the user, the
   older one with one exchange. *)

NoOp == [op |-> "init", id |-> NullId, info |-> "none", inContext |-> FALSE, arg |-> <<>>]

Op(name, id, info) ==
    [op |-> name, id |-> id, info |-> info, inContext |-> FALSE, arg |-> <<>>]

StoredOther == NewSession(1, 1, OtherUser)

StoredOld ==
    [id |-> 1,
     title |-> <<"h", "i">>,
     messages |-> <<WELCOME_MESSAGE,
                    [role |-> "user", parts |-> <<TextPart(<<"h", "i">>)>>,
                     displayParts |-> <<TextPart(<<"h", "i">>)>>, timestamp |-> 1,
                     isError |-> FALSE, isGenerating |-> FALSE, generationProgress |-> NoProgress],
                    [role |-> "model", parts |-> <<TextPart(<<"H", "i", "!">>)>>,
                     displayParts |-> <<TextPart(<<"H", "i", "!">>)>>, timestamp |-> 2,
                     isError |-> FALSE, isGenerating |-> FALSE, generationProgress |-> NoProgress]>>,
     createdAt |-> 1,
     userId |-> User]

StoredNew == NewSession(2, 2, User)

\* The clock has reached the newest stored timestamp
InitialClock == StoredNew.createdAt

InitialDocuments ==
    {[readable |-> FALSE, doc |-> <<>>],
     [readable |-> TRUE, doc |-> <<>>],
     [readable |-> TRUE, doc |-> <<StoredOther>>],
     [readable |-> TRUE, doc |-> <<StoredOther, StoredNew, StoredOld>>]}

Init ==
    /\ clock = InitialClock
    /\ storage \in InitialDocuments
    /\ pc = "auth"
    /\ userId = "none"
    /\ sessions = <<>>
    /\ activeSessionId = NullId
    /\ contextSessionIds = {}
    /\ geminiSession = NullSession
    /\ apiKey \in BOOLEAN
    /\ webSearchEnabled = FALSE
    /\ isLoading = FALSE
    /\ mode = "chat"
    /\ gen = NoGen
    /\ late = NoLate
    /\ writable = TRUE
    /\ lastSave = "none"
    /\ tab = ClosedTab
    /\ auth = NoAuth
    /\ lastOp = NoOp

\* The same, in a browser whose storage may refuse every write (quota
\* reached, storage disabled)
InitStore ==
    /\ clock = InitialClock
    /\ storage \in InitialDocuments
    /\ pc = "auth"
    /\ userId = "none"
    /\ sessions = <<>>
    /\ activeSessionId = NullId
    /\ contextSessionIds = {}
    /\ geminiSession = NullSession
    /\ apiKey \in BOOLEAN
    /\ webSearchEnabled = FALSE
    /\ isLoading = FALSE
    /\ mode = "chat"
    /\ gen = NoGen
    /\ late = NoLate
    /\ writable \in BOOLEAN
    /\ lastSave = "none"
    /\ tab = ClosedTab
    /\ auth = NoAuth
    /\ lastOp = NoOp

----------------------------------------------------------------------------
(* Effects of a render *)

\* save effect, deps [sessions, userId]
RunSave(ss) ==
    /\ storage' = SaveEffect(storage, ss, userId, writable)
    /\ lastSave' = SaveOutcome(storage, writable)

\* recreate effect, deps [activeSessionId, contextSessionIds, sessions,
\* webSearchEnabled, apiKeyVersion]
RunRecreate ==
    geminiSession' = RecreateEffect(activeSessionId', sessions', contextSessionIds',
                                    webSearchEnabled', apiKey', geminiSession)

----------------------------------------------------------------------------
(* App.tsx / useAuth: signing in mounts MainApp, signing out unmounts it *)

Login(u) ==
    /\ pc = "auth"
    /\ pc' = "mount"
    /\ userId' = u
    /\ lastOp' = Op("login", NullId, "none")
    /\ UNCHANGED <<auth, late, tab, mode, clock, storage, sessions, activeSessionId, contextSessionIds,
                   geminiSession, apiKey, webSearchEnabled, isLoading, gen,
                   writable, lastSave>>

\* Unmounting discards the hook's state; updates of a generation still in
\* flight reach no component.
Logout ==
    /\ pc = "ready"
    /\ pc' = "auth"
    /\ userId' = "none"
    /\ sessions' = <<>>
    /\ activeSessionId' = NullId
    /\ contextSessionIds' = {}
    /\ geminiSession' = NullSession
    /\ webSearchEnabled' = FALSE
    /\ isLoading' = FALSE
    /\ mode' = "chat"
    /\ gen' = NoGen
    /\ lastSave' = "none"
    /\ lastOp' = Op("logout", NullId, "none")
    /\ late' = NoLate
    /\ UNCHANGED <<auth, tab, clock, storage, apiKey, writable>>

----------------------------------------------------------------------------
(* useAuth: the stored users list, the current user and authError *)

\* String.prototype.toLowerCase on the characters the inputs use
LowerCaseOf(c) ==
    CASE c = "A" -> "a"
      [] c = "B" -> "b"
      [] c = "X" -> "x"
      [] OTHER -> c

toLowerCase(t) == [k \in 1..Len(t) |-> LowerCaseOf(t[k])]

\* Variant: the emails are compared as typed
SameEmailAsTyped(a, b) == a = b

\* u.email.toLowerCase() === email.toLowerCase()
SameEmail(a, b) == toLowerCase(a) = toLowerCase(b)

\* users.find(u => u.email.toLowerCase() === email.toLowerCase())
FindByEmail(users, email) == SelectSeq(users, LAMBDA u : SameEmail(u.email, email))

\* Emails typed into the sign-up form or carried by a Google credential
EmailInputs ==
    {<<"a", "@", "x">>, <<"A", "@", "X">>, <<"b", "@", "x">>}

PasswordInput == <<"p", "w">>

\* Decoded credentials: jwt_decode returns null for a malformed token.  The
\* subject ids are those of the Google accounts of the three addresses.
NoPayload == [email |-> <<>>, sub |-> NullId]

GooglePayloads ==
    {[email |-> <<"a", "@", "x">>, sub |-> 11],
     [email |-> <<"A", "@", "X">>, sub |-> 11],
     [email |-> <<"b", "@", "x">>, sub |-> 12],
     NoPayload}

\* signUp(username, email, password)
SignUp(email, password) ==
    /\ IF FindByEmail(auth.users, email) # <<>>
       THEN /\ auth' = [auth EXCEPT !.authError = "An account with this email already exists."]
            /\ lastOp' = [Op("signup", NullId, "exists") EXCEPT !.arg = email]
            /\ UNCHANGED clock
       ELSE \E t \in Readings(clock) :
            LET newUser == [id |-> t, email |-> email, password |-> password,
                            isGoogleUser |-> FALSE]
            IN  /\ auth' = [users |-> auth.users \o <<newUser>>,
                            user |-> newUser,
                            authError |-> NoAuthError]
                /\ lastOp' = [Op("signup", t, "created") EXCEPT !.arg = email]
                /\ clock' = t
    /\ UNCHANGED <<late, tab, mode, storage, pc, userId, sessions, activeSessionId,
                   contextSessionIds, geminiSession, apiKey, webSearchEnabled,
                   isLoading, gen, writable, lastSave>>

\* handleGoogleSignIn(credential), on the decoded payload
HandleGoogleSignIn(payload) ==
    LET found == FindByEmail(auth.users, payload.email)
        newUser == [id |-> payload.sub, email |-> payload.email, password |-> <<>>,
                    isGoogleUser |-> TRUE]
    IN
    /\ IF payload = NoPayload
       THEN /\ auth' = [auth EXCEPT !.authError = "Invalid Google sign-in credential."]
            /\ lastOp' = Op("google", NullId, "invalid")
       ELSE IF found # <<>> /\ ~Head(found).isGoogleUser
       THEN /\ auth' = [auth EXCEPT !.authError =
                            "An account with this email exists. Please sign in with your password."]
            /\ lastOp' = [Op("google", NullId, "password-account") EXCEPT !.arg = payload.email]
       ELSE IF found # <<>>
       THEN /\ auth' = [auth EXCEPT !.user = Head(found), !.authError = NoAuthError]
            /\ lastOp' = [Op("google", Head(found).id, "signed-in") EXCEPT !.arg = payload.email]
       ELSE /\ auth' = [users |-> auth.users \o <<newUser>>,
                        user |-> newUser,
                        authError |-> NoAuthError]
            /\ lastOp' = [Op("google", newUser.id, "created") EXCEPT !.arg = payload.email]
    /\ UNCHANGED <<late, tab, mode, clock, storage, pc, userId, sessions, activeSessionId,
                   contextSessionIds, geminiSession, apiKey, webSearchEnabled,
                   isLoading, gen, writable, lastSave>>

\* logout(): setUser(null); the users list stays
AuthLogout ==
    /\ auth.user # NoUser
    /\ auth' = [auth EXCEPT !.user = NoUser]
    /\ lastOp' = Op("signout", NullId, "none")
    /\ UNCHANGED <<late, tab, mode, clock, storage, pc, userId, sessions, activeSessionId,
                   contextSessionIds, geminiSession, apiKey, webSearchEnabled,
                   isLoading, gen, writable, lastSave>>

----------------------------------------------------------------------------
(* useChatHistory: mount *)

\* First effect pass after the first render.  The load effect queues the
\* loaded (or freshly seeded) collection; the save effect of the same pass
\* still sees the first render's sessions = [] and activeSessionId = null.
Mount ==
    /\ pc = "mount"
    /\ pc' = "rerender"
    /\ IF LoadFallsBack(storage, userId)
       THEN \E t1 \in Readings(clock) : \E t2 \in Readings(t1) :
                /\ sessions' = InitialSessions(NewSession(t1, t2, userId))
                /\ activeSessionId' = t1
                /\ clock' = t2
       ELSE /\ sessions' = LoadSorted(storage, userId)
            /\ activeSessionId' = LoadSorted(storage, userId)[1].id
            /\ clock' = clock
    /\ RunSave(<<>>)
    /\ lastOp' = Op("load", NullId, IF LoadFallsBack(storage, userId) THEN "fallback" ELSE "loaded")
    /\ UNCHANGED <<auth, late, tab, mode, userId, contextSessionIds, geminiSession, apiKey,
                   webSearchEnabled, isLoading, gen, writable>>

\* The render that follows: sessions and activeSessionId have changed, so
\* the save effect and the recreate effect run with the loaded state.
Rerender ==
    /\ pc = "rerender"
    /\ pc' = "ready"
    /\ RunSave(sessions)
    /\ UNCHANGED <<auth, late, tab, mode, clock, userId, sessions, activeSessionId, contextSessionIds,
                   apiKey, webSearchEnabled, isLoading, gen, writable, lastOp>>
    /\ RunRecreate

----------------------------------------------------------------------------
(* useChatHistory: operations, each with the effects of the render it causes *)

\* handleNewChat -> startNewChat(false)
StartNewChat ==
    /\ pc = "ready"
    /\ Len(sessions) < MaxSessions
    /\ \E t1 \in Readings(clock) : \E t2 \in Readings(t1) :
        /\ sessions' = PrependSession(NewSession(t1, t2, userId), sessions)
        /\ activeSessionId' = t1
        /\ clock' = t2
    /\ RunSave(sessions')
    /\ lastOp' = Op("new", activeSessionId', "none")
    /\ UNCHANGED <<auth, late, tab, mode, pc, userId, contextSessionIds, apiKey, webSearchEnabled,
                   isLoading, gen, writable>>
    /\ RunRecreate

\* Variant: the deleted id stays in the context set
KeepInContext(prev, sessionId) == prev

\* setContextSessionIds(prev => { newSet.delete(sessionId) })
RemoveFromContext(prev, sessionId) == prev \ {sessionId}

\* Variant: the sort ascending, which promotes the oldest session
MostRecentAscending(newSessions) == SortDesc(newSessions)[Len(newSessions)]

\* [...newSessions].sort((a, b) => b.createdAt - a.createdAt)[0]
MostRecent(newSessions) == SortDesc(newSessions)[1]

\* handleDeleteChat -> deleteChatSession(sessionId)
DeleteChatSession(sessionId) ==
    LET newSessions == WithoutId(sessions, sessionId)
        case == IF sessionId # activeSessionId THEN "other"
                ELSE IF Len(newSessions) > 0 THEN "promote" ELSE "last"
    IN
    /\ pc = "ready"
    /\ contextSessionIds' = RemoveFromContext(contextSessionIds, sessionId)
    /\ CASE case = "other" ->
                /\ sessions' = newSessions
                /\ UNCHANGED <<activeSessionId, clock>>
         [] case = "promote" ->
                /\ sessions' = newSessions
                /\ activeSessionId' = MostRecent(newSessions).id
                /\ clock' = clock
         [] case = "last" ->
                \E t1 \in Readings(clock) : \E t2 \in Readings(t1) :
                    /\ sessions' = <<NewSession(t1, t2, userId)>>
                    /\ activeSessionId' = t1
                    /\ clock' = t2
    /\ RunSave(sessions')
    /\ lastOp' = [Op("delete", sessionId, case) EXCEPT !.inContext = sessionId \in contextSessionIds]
    /\ UNCHANGED <<auth, late, tab, mode, pc, userId, apiKey, webSearchEnabled, isLoading, gen, writable>>
    /\ RunRecreate

\* handleLoadChat -> loadChatSession(sessionId); only activeSessionId
\* changes, so the save effect does not run.
LoadChatSession(sessionId) ==
    /\ pc = "ready"
    /\ activeSessionId # sessionId
    /\ WithId(sessions, sessionId) # <<>>
    /\ activeSessionId' = sessionId
    /\ lastOp' = Op("switch", sessionId, "none")
    /\ UNCHANGED <<auth, late, tab, mode, clock, storage, pc, userId, sessions, contextSessionIds,
                   apiKey, webSearchEnabled, isLoading, gen, writable, lastSave>>
    /\ RunRecreate

\* Variant: the id is added, never removed
ToggleSetAddOnly(prev, sessionId) == prev \cup {sessionId}

ToggleSet(prev, sessionId) ==
    IF sessionId \in prev THEN prev \ {sessionId} ELSE prev \cup {sessionId}

\* toggleContextSession(sessionId); the sidebar offers it for the sessions
\* of the collection and disables it for the active one.
ToggleContextSession(sessionId) ==
    /\ pc = "ready"
    /\ contextSessionIds' = ToggleSet(contextSessionIds, sessionId)
    /\ lastOp' = Op("toggle", sessionId, "none")
    /\ UNCHANGED <<auth, late, tab, mode, clock, storage, pc, userId, sessions, activeSessionId,
                   apiKey, webSearchEnabled, isLoading, gen, writable, lastSave>>
    /\ RunRecreate

\* Variant: the title is stored as typed, without trimming
SetTitleUntrimmed(ss, sessionId, newTitle) ==
    [i \in 1..Len(ss) |-> IF ss[i].id = sessionId THEN [ss[i] EXCEPT !.title = newTitle] ELSE ss[i]]

\* prev.map(s => (s.id === sessionId ? { ...s, title: trimmedTitle } : s))
SetTitle(ss, sessionId, newTitle) ==
    [i \in 1..Len(ss) |-> IF ss[i].id = sessionId THEN [ss[i] EXCEPT !.title = Trim(newTitle)] ELSE ss[i]]

\* handleTitleSave -> updateSessionTitle(sessionId, newTitle); a blank
\* title returns before any state is set, so nothing renders.
UpdateSessionTitle(sessionId, newTitle) ==
    /\ pc = "ready"
    /\ UNCHANGED <<auth, late, tab, mode, clock, pc, userId, activeSessionId, contextSessionIds,
                   apiKey, webSearchEnabled, isLoading, gen, writable>>
    /\ IF Trim(newTitle) = <<>>
       THEN /\ lastOp' = [Op("rename", sessionId, "blank") EXCEPT !.arg = newTitle]
            /\ UNCHANGED <<sessions, storage, lastSave, geminiSession>>
       ELSE /\ sessions' = SetTitle(sessions, sessionId, newTitle)
            /\ RunSave(sessions')
            /\ lastOp' = [Op("rename", sessionId, "set") EXCEPT !.arg = newTitle]
            /\ RunRecreate

\* handleSaveApiKey / handleClearApiKey: the key changes and apiKeyVersion
\* is incremented, which re-runs the recreate effect.
SetApiKey(present) ==
    /\ pc = "ready"
    /\ apiKey' = present
    /\ lastOp' = Op("apikey", NullId, "none")
    /\ UNCHANGED <<auth, late, tab, mode, clock, storage, pc, userId, sessions, activeSessionId,
                   contextSessionIds, webSearchEnabled, isLoading, gen,
                   writable, lastSave>>
    /\ RunRecreate

\* onWebSearchChange
SetWebSearch(enabled) ==
    /\ pc = "ready"
    /\ webSearchEnabled # enabled
    /\ webSearchEnabled' = enabled
    /\ lastOp' = Op("websearch", NullId, "none")
    /\ UNCHANGED <<auth, late, tab, mode, clock, storage, pc, userId, sessions, activeSessionId,
                   contextSessionIds, apiKey, isLoading, gen, writable, lastSave>>
    /\ RunRecreate

\* The message a caller of setActiveChatHistory appends: a user message
MessageInputs ==
    {[role |-> "user", parts |-> <<TextPart(<<"y", "o">>)>>,
      displayParts |-> <<TextPart(<<"y", "o">>)>>, timestamp |-> 3,
      isError |-> FALSE, isGenerating |-> FALSE, generationProgress |-> NoProgress]}

\* setActiveChatHistory(prev => [...prev, m]), called in the current render
AppendMessage(m) ==
    /\ pc = "ready"
    /\ TotalMessages(sessions) + Len(WithId(sessions, activeSessionId)) <= MaxMessages
    /\ sessions' = SetActiveChatHistory(sessions, activeSessionId, Appending(<<m>>))
    /\ RunSave(sessions')
    /\ lastOp' = Op("append", activeSessionId, m.role)
    /\ UNCHANGED <<auth, late, tab, mode, clock, pc, userId, activeSessionId, contextSessionIds, apiKey,
                   webSearchEnabled, isLoading, gen, writable>>
    /\ RunRecreate

----------------------------------------------------------------------------
(* MainApp.handleSendMessage, chat branch.  The handler and its
   continuations use setActiveChatHistory of the render in which the
   message was sent: every update goes to gen.target. *)

TextMessage(role, text, ts, isError) ==
    [role |-> role,
     parts |-> <<TextPart(text)>>,
     displayParts |-> <<TextPart(text)>>,
     timestamp |-> ts,
     isError |-> isError,
     isGenerating |-> FALSE, generationProgress |-> NoProgress]

\* handleModeChange(newMode)
SetMode(newMode) ==
    /\ pc = "ready"
    /\ mode # newMode
    /\ mode' = newMode
    /\ lastOp' = Op("mode", NullId, newMode)
    /\ UNCHANGED <<auth, late, tab, clock, storage, pc, userId, sessions, activeSessionId,
                   contextSessionIds, geminiSession, apiKey, webSearchEnabled,
                   isLoading, gen, writable, lastSave>>

\* Chat branch up to the first await: user message and empty placeholder
\* are appended
SendChat(input) ==
    /\ pc = "ready"
    /\ ~isLoading
    /\ mode = "chat"
    /\ geminiSession.live
    /\ TotalMessages(sessions) + 2 * Len(WithId(sessions, activeSessionId)) <= MaxMessages
    /\ \E t1 \in Readings(clock) : \E t2 \in Readings(t1) :
        LET userMessage == [role |-> "user", parts |-> input.parts,
                            displayParts |-> input.displayParts, timestamp |-> t1,
                            isError |-> FALSE, isGenerating |-> FALSE, generationProgress |-> NoProgress]
            currentResponse == TextMessage("model", <<>>, t2 + 1, FALSE)
        IN  /\ sessions' = SetActiveChatHistory(sessions, activeSessionId,
                                                Appending(<<userMessage, currentResponse>>))
            /\ gen' = [kind |-> "chat", target |-> activeSessionId,
                       timestamp |-> t2 + 1, text |-> <<>>]
            /\ clock' = t2
    /\ isLoading' = TRUE
    /\ RunSave(sessions')
    /\ lastOp' = Op("send", activeSessionId, "chat")
    /\ UNCHANGED <<auth, late, tab, mode, pc, userId, activeSessionId, contextSessionIds, apiKey,
                   webSearchEnabled, writable>>
    /\ RunRecreate

\* Chat mode without a handle: no branch applies, the final else resets
\* isLoading and nothing else is set.
SendWithoutHandle(input) ==
    /\ pc = "ready"
    /\ ~isLoading
    /\ mode = "chat"
    /\ ~geminiSession.live
    /\ lastOp' = Op("send", activeSessionId, "ignored")
    /\ UNCHANGED <<auth, late, tab, mode, clock, storage, pc, userId, sessions, activeSessionId,
                   contextSessionIds, geminiSession, apiKey, webSearchEnabled,
                   isLoading, gen, writable, lastSave>>

\* The placeholder of the image and video branches
LoadingResponse(input, ts, progress) ==
    [role |-> "model", parts |-> input.parts, displayParts |-> input.displayParts,
     timestamp |-> ts, isError |-> FALSE, isGenerating |-> TRUE,
     generationProgress |-> progress]

\* Image branch up to the await of generateImage
SendImage(input) ==
    /\ pc = "ready"
    /\ ~isLoading
    /\ mode = "image"
    /\ TotalMessages(sessions) + 2 * Len(WithId(sessions, activeSessionId)) <= MaxMessages
    /\ \E t1 \in Readings(clock) : \E t2 \in Readings(t1) :
        LET userMessage == [role |-> "user", parts |-> input.parts,
                            displayParts |-> input.displayParts, timestamp |-> t1,
                            isError |-> FALSE, isGenerating |-> FALSE, generationProgress |-> NoProgress]
            loadingResponse == LoadingResponse(input, t2 + 1, NoProgress)
        IN  /\ sessions' = SetActiveChatHistory(sessions, activeSessionId,
                                                Appending(<<userMessage, loadingResponse>>))
            /\ gen' = [kind |-> "image", target |-> activeSessionId,
                       timestamp |-> t2 + 1, text |-> <<>>]
            /\ clock' = t2
    /\ isLoading' = TRUE
    /\ RunSave(sessions')
    /\ lastOp' = Op("send", activeSessionId, "image")
    /\ UNCHANGED <<auth, late, tab, mode, pc, userId, activeSessionId, contextSessionIds, apiKey,
                   webSearchEnabled, writable>>
    /\ RunRecreate

\* Video branch up to the first await
SendVideo(input) ==
    /\ pc = "ready"
    /\ ~isLoading
    /\ mode = "video"
    /\ TotalMessages(sessions) + 2 * Len(WithId(sessions, activeSessionId)) <= MaxMessages
    /\ \E t1 \in Readings(clock) : \E t2 \in Readings(t1) :
        LET userMessage == [role |-> "user", parts |-> input.parts,
                            displayParts |-> input.displayParts, timestamp |-> t1,
                            isError |-> FALSE, isGenerating |-> FALSE, generationProgress |-> NoProgress]
            loadingResponse == LoadingResponse(input, t2 + 1, "Preparing request...")
        IN  /\ sessions' = SetActiveChatHistory(sessions, activeSessionId,
                                                Appending(<<userMessage, loadingResponse>>))
            /\ gen' = [kind |-> "video", target |-> activeSessionId,
                       timestamp |-> t2 + 1, text |-> <<>>]
            /\ clock' = t2
    /\ isLoading' = TRUE
    /\ RunSave(sessions')
    /\ lastOp' = Op("send", activeSessionId, "video")
    /\ UNCHANGED <<auth, late, tab, mode, pc, userId, activeSessionId, contextSessionIds, apiKey,
                   webSearchEnabled, writable>>
    /\ RunRecreate

\* One iteration of `for await (const chunk of stream)`
StreamChunk(chunkText) ==
    /\ pc = "ready"
    /\ gen.kind = "chat"
    /\ LET text == IF chunkText # <<>> THEN chunkText ELSE gen.text
           currentResponse == TextMessage("model", text, gen.timestamp, FALSE)
       IN  /\ sessions' = SetActiveChatHistory(sessions, gen.target,
                                               ReplacingLast(currentResponse))
           /\ gen' = [gen EXCEPT !.text = text]
    /\ RunSave(sessions')
    /\ lastOp' = [Op("chunk", gen.target, "chat") EXCEPT !.arg = chunkText]
    /\ UNCHANGED <<auth, late, tab, mode, clock, pc, userId, activeSessionId, contextSessionIds, apiKey,
                   webSearchEnabled, isLoading, writable>>
    /\ RunRecreate

\* The stream ends: finally { setIsLoading(false) }
StreamEnd ==
    /\ pc = "ready"
    /\ gen.kind = "chat"
    /\ isLoading' = FALSE
    /\ gen' = NoGen
    /\ lastOp' = Op("done", gen.target, "chat")
    /\ UNCHANGED <<auth, late, tab, mode, clock, storage, pc, userId, sessions, activeSessionId,
                   contextSessionIds, geminiSession, apiKey, webSearchEnabled,
                   writable, lastSave>>

ErrorText == <<"S", "o", "r", "r", "y">>

\* streamMessage or the stream throws: the catch replaces the last message
StreamError ==
    /\ pc = "ready"
    /\ gen.kind = "chat"
    /\ \E t \in Readings(clock) :
        LET errorMessage == TextMessage("model", ErrorText, t + 1, TRUE)
        IN  /\ sessions' = SetActiveChatHistory(sessions, gen.target,
                                                DroppingLastAppending(errorMessage))
            /\ clock' = t
    /\ isLoading' = FALSE
    /\ gen' = NoGen
    /\ RunSave(sessions')
    /\ lastOp' = Op("error", gen.target, "chat")
    /\ UNCHANGED <<auth, late, tab, mode, pc, userId, activeSessionId, contextSessionIds, apiKey,
                   webSearchEnabled, writable>>
    /\ RunRecreate

----------------------------------------------------------------------------
(* PromptInput.handleSend is async: with an attachment it awaits
   fileToPart / fileToDisplayPart before it calls onSendMessage.  The call
   it makes afterwards is to the handleSendMessage of the render in which
   the user pressed Enter, whose isLoading, geminiSession and
   setActiveChatHistory are those of that render. *)

\* handleSend passes its guard (isLoading and disabled are false) and
\* starts to convert the attachments
HandleSendConverting ==
    /\ pc = "ready"
    /\ ~isLoading
    /\ mode = "chat"
    /\ apiKey
    /\ geminiSession.live
    /\ late.state = "none"
    /\ late' = [state |-> "converting", target |-> activeSessionId,
                timestamp |-> 0, text |-> <<>>]
    /\ lastOp' = Op("enter", activeSessionId, "chat")
    /\ UNCHANGED <<auth, tab, mode, clock, storage, pc, userId, sessions, activeSessionId,
                   contextSessionIds, geminiSession, apiKey, webSearchEnabled,
                   isLoading, gen, writable, lastSave>>

\* The conversion is done: onSendMessage of that render runs its chat
\* branch, whatever isLoading is by now
SendChatConverted(input) ==
    /\ pc = "ready"
    /\ late.state = "converting"
    /\ TotalMessages(sessions) + 2 * Len(WithId(sessions, late.target)) <= MaxMessages
    /\ \E t1 \in Readings(clock) : \E t2 \in Readings(t1) :
        LET userMessage == [role |-> "user", parts |-> input.parts,
                            displayParts |-> input.displayParts, timestamp |-> t1,
                            isError |-> FALSE, isGenerating |-> FALSE, generationProgress |-> NoProgress]
            currentResponse == TextMessage("model", <<>>, t2 + 1, FALSE)
        IN  /\ sessions' = SetActiveChatHistory(sessions, late.target,
                                                Appending(<<userMessage, currentResponse>>))
            /\ late' = [late EXCEPT !.state = "streaming", !.timestamp = t2 + 1]
            /\ clock' = t2
    /\ isLoading' = TRUE
    /\ RunSave(sessions')
    /\ lastOp' = Op("send", late.target, "converted")
    /\ UNCHANGED <<auth, tab, mode, pc, userId, activeSessionId, contextSessionIds, apiKey,
                   webSearchEnabled, gen, writable>>
    /\ RunRecreate

\* One chunk of the stream of that send
ConvertedStreamChunk(chunkText) ==
    /\ pc = "ready"
    /\ late.state = "streaming"
    /\ LET text == IF chunkText # <<>> THEN chunkText ELSE late.text
           currentResponse == TextMessage("model", text, late.timestamp, FALSE)
       IN  /\ sessions' = SetActiveChatHistory(sessions, late.target,
                                               ReplacingLast(currentResponse))
           /\ late' = [late EXCEPT !.text = text]
    /\ RunSave(sessions')
    /\ lastOp' = [Op("chunk", late.target, "converted") EXCEPT !.arg = chunkText]
    /\ UNCHANGED <<auth, tab, mode, clock, pc, userId, activeSessionId, contextSessionIds, apiKey,
                   webSearchEnabled, isLoading, gen, writable>>
    /\ RunRecreate

\* Its stream ends: finally { setIsLoading(false) }
ConvertedStreamEnd ==
    /\ pc = "ready"
    /\ late.state = "streaming"
    /\ isLoading' = FALSE
    /\ late' = NoLate
    /\ lastOp' = Op("done", late.target, "converted")
    /\ UNCHANGED <<auth, tab, mode, clock, storage, pc, userId, sessions, activeSessionId,
                   contextSessionIds, geminiSession, apiKey, webSearchEnabled,
                   gen, writable, lastSave>>

\* Its stream throws
ConvertedStreamError ==
    /\ pc = "ready"
    /\ late.state = "streaming"
    /\ \E t \in Readings(clock) :
        LET errorMessage == TextMessage("model", ErrorText, t + 1, TRUE)
        IN  /\ sessions' = SetActiveChatHistory(sessions, late.target,
                                                DroppingLastAppending(errorMessage))
            /\ clock' = t
    /\ isLoading' = FALSE
    /\ late' = NoLate
    /\ RunSave(sessions')
    /\ lastOp' = Op("error", late.target, "converted")
    /\ UNCHANGED <<auth, tab, mode, pc, userId, activeSessionId, contextSessionIds, apiKey,
                   webSearchEnabled, gen, writable>>
    /\ RunRecreate

----------------------------------------------------------------------------
(* MainApp.handleSendMessage, image and video branches *)

\* A generated picture or video: a part without text
MediaMessage(kind, ts) ==
    [role |-> "model",
     parts |-> IF kind = "image" THEN <<[kind |-> "inlineData", text |-> <<>>]>> ELSE <<>>,
     displayParts |-> <<[kind |-> kind, text |-> <<>>]>>,
     timestamp |-> ts,
     isError |-> FALSE,
     isGenerating |-> FALSE, generationProgress |-> NoProgress]

\* generateImage resolves: the picture replaces the last message
ImageDone ==
    /\ pc = "ready"
    /\ gen.kind = "image"
    /\ apiKey
    /\ \E t \in Readings(clock) :
        /\ sessions' = SetActiveChatHistory(sessions, gen.target,
                            DroppingLastAppending(MediaMessage("image", t + 1)))
        /\ clock' = t
    /\ isLoading' = FALSE
    /\ gen' = NoGen
    /\ RunSave(sessions')
    /\ lastOp' = Op("result", gen.target, "image")
    /\ UNCHANGED <<auth, late, tab, mode, pc, userId, activeSessionId, contextSessionIds, apiKey,
                   webSearchEnabled, writable>>
    /\ RunRecreate

\* generateImage throws (getAi without a key, or the request fails)
ImageError ==
    /\ pc = "ready"
    /\ gen.kind = "image"
    /\ \E t \in Readings(clock) :
        /\ sessions' = SetActiveChatHistory(sessions, gen.target,
                            DroppingLastAppending(TextMessage("model", ErrorText, t + 1, TRUE)))
        /\ clock' = t
    /\ isLoading' = FALSE
    /\ gen' = NoGen
    /\ RunSave(sessions')
    /\ lastOp' = Op("error", gen.target, "image")
    /\ UNCHANGED <<auth, late, tab, mode, pc, userId, activeSessionId, contextSessionIds, apiKey,
                   webSearchEnabled, writable>>
    /\ RunRecreate

\* onProgress(status), called by generateVideos while it polls
VideoProgress ==
    /\ pc = "ready"
    /\ gen.kind = "video"
    /\ sessions' = SetActiveChatHistory(sessions, gen.target,
                                        SettingProgress(gen.timestamp, "Generating..."))
    /\ RunSave(sessions')
    /\ lastOp' = Op("progress", gen.target, "video")
    /\ UNCHANGED <<auth, late, tab, mode, clock, pc, userId, activeSessionId, contextSessionIds, apiKey,
                   webSearchEnabled, isLoading, gen, writable>>
    /\ RunRecreate

\* The video was fetched: the response replaces the placeholder, found by
\* its timestamp
VideoDone ==
    /\ pc = "ready"
    /\ gen.kind = "video"
    /\ \E t \in Readings(clock) :
        /\ sessions' = SetActiveChatHistory(sessions, gen.target,
                            ReplacingByTimestamp(gen.timestamp, MediaMessage("video", t)))
        /\ clock' = t
    /\ isLoading' = FALSE
    /\ gen' = NoGen
    /\ RunSave(sessions')
    /\ lastOp' = Op("result", gen.target, "video")
    /\ UNCHANGED <<auth, late, tab, mode, pc, userId, activeSessionId, contextSessionIds, apiKey,
                   webSearchEnabled, writable>>
    /\ RunRecreate

\* Variant: the catch without the finally, isLoading stays set
VideoErrorStillLoading ==
    /\ pc = "ready"
    /\ gen.kind = "video"
    /\ \E t \in Readings(clock) :
        /\ sessions' = SetActiveChatHistory(sessions, gen.target,
                            ReplacingByTimestamp(gen.timestamp,
                                                 TextMessage("model", ErrorText, t, TRUE)))
        /\ clock' = t
    /\ gen' = NoGen
    /\ RunSave(sessions')
    /\ lastOp' = Op("error", gen.target, "video")
    /\ UNCHANGED <<auth, late, tab, mode, pc, userId, activeSessionId, contextSessionIds, apiKey,
                   webSearchEnabled, isLoading, writable>>
    /\ RunRecreate

\* The try block throws: no video key, or generateVideos / fetch fail
VideoError ==
    /\ pc = "ready"
    /\ gen.kind = "video"
    /\ \E t \in Readings(clock) :
        /\ sessions' = SetActiveChatHistory(sessions, gen.target,
                            ReplacingByTimestamp(gen.timestamp,
                                                 TextMessage("model", ErrorText, t, TRUE)))
        /\ clock' = t
    /\ isLoading' = FALSE
    /\ gen' = NoGen
    /\ RunSave(sessions')
    /\ lastOp' = Op("error", gen.target, "video")
    /\ UNCHANGED <<auth, late, tab, mode, pc, userId, activeSessionId, contextSessionIds, apiKey,
                   webSearchEnabled, writable>>
    /\ RunRecreate

----------------------------------------------------------------------------
(* A second tab of the same browser, signed in as the same user (the
   current user is kept in localStorage).  It runs the same hook on its own
   state; the two tabs share the stored document and the clock.  A run of
   the save effect is synchronous from getItem to setItem. *)

AllButTabs == <<auth, late, pc, userId, sessions, activeSessionId, contextSessionIds,
                geminiSession, apiKey, webSearchEnabled, isLoading, mode, gen,
                writable, lastSave>>

\* load effect and the save effect of the first render (sessions = [])
TabMount ==
    /\ tab.pc = "closed"
    /\ IF LoadFallsBack(storage, User)
       THEN \E t1 \in Readings(clock) : \E t2 \in Readings(t1) :
                /\ tab' = [pc |-> "rerender",
                           sessions |-> InitialSessions(NewSession(t1, t2, User))]
                /\ clock' = t2
       ELSE /\ tab' = [pc |-> "rerender", sessions |-> LoadSorted(storage, User)]
            /\ clock' = clock
    /\ storage' = SaveEffect(storage, <<>>, User, writable)
    /\ lastOp' = Op("tab-load", NullId, "none")
    /\ UNCHANGED AllButTabs

\* save effect of the render with the loaded collection
TabRerender ==
    /\ tab.pc = "rerender"
    /\ tab' = [tab EXCEPT !.pc = "ready"]
    /\ storage' = SaveEffect(storage, tab.sessions, User, writable)
    /\ lastOp' = Op("tab-save", NullId, "none")
    /\ UNCHANGED clock
    /\ UNCHANGED AllButTabs

\* startNewChat(false) in the second tab
TabNewChat ==
    /\ tab.pc = "ready"
    /\ Len(tab.sessions) < MaxSessions
    /\ \E t1 \in Readings(clock) : \E t2 \in Readings(t1) :
        /\ tab' = [tab EXCEPT !.sessions = PrependSession(NewSession(t1, t2, User), @)]
        /\ clock' = t2
    /\ storage' = SaveEffect(storage, tab'.sessions, User, writable)
    /\ lastOp' = Op("tab-new", NullId, "none")
    /\ UNCHANGED AllButTabs

\* The second tab is closed
TabClose ==
    /\ tab.pc = "ready"
    /\ tab' = ClosedTab
    /\ lastOp' = Op("tab-close", NullId, "none")
    /\ UNCHANGED <<clock, storage>>
    /\ UNCHANGED AllButTabs

----------------------------------------------------------------------------
(* Specifications *)

\* One visit: the sidebar as the UI offers it, and message updates
Next ==
    \/ Login(User)
    \/ Mount
    \/ Rerender
    \/ StartNewChat
    \/ \E id \in Ids(sessions) : DeleteChatSession(id)
    \/ \E id \in Ids(sessions) : LoadChatSession(id)
    \/ \E id \in Ids(sessions) \ {activeSessionId} : ToggleContextSession(id)
    \/ \E m \in MessageInputs : AppendMessage(m)

Spec == Init /\ [][Next]_vars

\* Several visits of the user (sign out, sign in) over one stored document
NextStore ==
    \/ Login(User)
    \/ Logout
    \/ Mount
    \/ Rerender
    \/ StartNewChat
    \/ \E id \in Ids(sessions) : DeleteChatSession(id)
    \/ \E id \in Ids(sessions) : \E t \in {s \in TitleInputs : Trim(s) # <<>>} :
            UpdateSessionTitle(id, t)
    \/ \E m \in MessageInputs : AppendMessage(m)

SpecStore == InitStore /\ [][NextStore]_vars

\* The context selector called with any id
NextToggle ==
    \/ Login(User)
    \/ Mount
    \/ Rerender
    \/ \E id \in ToggleIds : ToggleContextSession(id)

SpecToggle == Init /\ [][NextToggle]_vars

\* Sends in the three modes, with the sidebar in use while a generation
\* is in flight
NextChat ==
    \/ Login(User)
    \/ Mount
    \/ Rerender
    \/ StartNewChat
    \/ \E id \in Ids(sessions) : LoadChatSession(id)
    \/ \E m \in {"chat", "image", "video"} : SetMode(m)
    \/ \E present \in BOOLEAN : SetApiKey(present)
    \/ \E input \in UserInputs : SendChat(input)
    \/ \E input \in UserInputs : SendWithoutHandle(input)
    \/ \E input \in UserInputs : SendImage(input)
    \/ \E input \in UserInputs : SendVideo(input)
    \/ \E chunkText \in ChunkTexts : StreamChunk(chunkText)
    \/ StreamEnd
    \/ StreamError
    \/ ImageDone
    \/ ImageError
    \/ VideoProgress
    \/ VideoDone
    \/ VideoError

\* A first visit: no stored chats
InitChat == Init /\ storage.readable /\ storage.doc = <<>>

SpecChat == InitChat /\ [][NextChat]_vars

\* Chat mode alone: streams, the key set and cleared, the sidebar in use
NextStream ==
    \/ Login(User)
    \/ Mount
    \/ Rerender
    \/ StartNewChat
    \/ \E id \in Ids(sessions) : LoadChatSession(id)
    \/ \E present \in BOOLEAN : SetApiKey(present)
    \/ \E input \in UserInputs : SendChat(input)
    \/ \E input \in UserInputs : SendWithoutHandle(input)
    \/ \E chunkText \in ChunkTexts : StreamChunk(chunkText)
    \/ StreamEnd
    \/ StreamError

SpecStream == InitChat /\ [][NextStream]_vars

\* Titles: renames of any session and first messages of the active one
NextTitle ==
    \/ Login(User)
    \/ Mount
    \/ Rerender
    \/ \E id \in Ids(sessions) : \E t \in RenameInputs : UpdateSessionTitle(id, t)
    \/ \E m \in TitleMessageInputs : AppendMessage(m)

\* A browser with a configured key and a readable document: the user's
\* first visit, or a visit with stored chats
InitTitle == Init /\ apiKey /\ storage.readable /\ storage.doc # <<>>

SpecTitle == InitTitle /\ [][NextTitle]_vars

\* The assembler's inputs: the stored chats in the sidebar (a deletion of
\* the last one creates a chat), messages, the search switch, the key
NextHandle ==
    \/ Login(User)
    \/ Mount
    \/ Rerender
    \/ \E id \in Ids(sessions) : DeleteChatSession(id)
    \/ \E id \in Ids(sessions) : LoadChatSession(id)
    \/ \E id \in Ids(sessions) \ {activeSessionId} : ToggleContextSession(id)
    \/ \E present \in BOOLEAN : SetApiKey(present)
    \/ \E enabled \in BOOLEAN : SetWebSearch(enabled)
    \/ \E m \in MessageInputs : AppendMessage(m)

\* A visit with stored chats and a configured key
InitHandle == Init /\ apiKey /\ OwnedBy(storage.doc, User) # <<>>

SpecHandle == InitHandle /\ [][NextHandle]_vars

\* Two tabs of the user over one stored document
NextTabs ==
    \/ Login(User)
    \/ Mount
    \/ Rerender
    \/ StartNewChat
    \/ \E id \in Ids(sessions) : DeleteChatSession(id)
    \/ TabMount
    \/ TabRerender
    \/ TabNewChat
    \/ TabClose

SpecTabs == InitTitle /\ [][NextTabs]_vars

\* Generations in the three modes with a configured key; a new chat may
\* be started while a generation is in flight
NextGen ==
    \/ Login(User)
    \/ Mount
    \/ Rerender
    \/ StartNewChat
    \/ \E m \in {"chat", "image", "video"} : SetMode(m)
    \/ \E input \in UserInputs : SendChat(input)
    \/ \E input \in UserInputs : SendImage(input)
    \/ \E input \in UserInputs : SendVideo(input)
    \/ \E chunkText \in ChunkTexts : StreamChunk(chunkText)
    \/ StreamEnd
    \/ StreamError
    \/ ImageDone
    \/ ImageError
    \/ VideoProgress
    \/ VideoDone
    \/ VideoError

InitGen == InitChat /\ apiKey

SpecGen == InitGen /\ [][NextGen]_vars

\* Chat sends, one of them delayed by the conversion of an attachment
NextRace ==
    \/ Login(User)
    \/ Mount
    \/ Rerender
    \/ HandleSendConverting
    \/ \E input \in UserInputs : SendChat(input)
    \/ \E input \in UserInputs : SendChatConverted(input)
    \/ \E chunkText \in ChunkTexts : StreamChunk(chunkText)
    \/ StreamEnd
    \/ StreamError
    \/ \E chunkText \in ChunkTexts : ConvertedStreamChunk(chunkText)
    \/ ConvertedStreamEnd
    \/ ConvertedStreamError

SpecRace == InitGen /\ [][NextRace]_vars

\* Generations whose upstream call returns or throws, and whose video
\* job reports done or fails: each await of handleSendMessage is resumed
NextLive ==
    \/ Login(User)
    \/ Mount
    \/ Rerender
    \/ \E m \in {"chat", "image", "video"} : SetMode(m)
    \/ \E input \in UserInputs : SendChat(input)
    \/ \E input \in UserInputs : SendImage(input)
    \/ \E input \in UserInputs : SendVideo(input)
    \/ \E chunkText \in ChunkTexts : StreamChunk(chunkText)
    \/ StreamEnd
    \/ StreamError
    \/ ImageDone
    \/ ImageError
    \/ VideoProgress
    \/ VideoDone
    \/ VideoError

SpecLive ==
    /\ InitGen
    /\ [][NextLive]_vars
    /\ WF_vars(StreamEnd \/ StreamError)
    /\ WF_vars(ImageDone \/ ImageError)
    /\ WF_vars(VideoDone \/ VideoError)

\* The sign-in screen
NextAuth ==
    \/ \E email \in EmailInputs : SignUp(email, PasswordInput)
    \/ \E payload \in GooglePayloads : HandleGoogleSignIn(payload)
    \/ AuthLogout

SpecAuth == Init /\ [][NextAuth]_vars

----------------------------------------------------------------------------
(* Properties *)

Loaded == pc \in {"rerender", "ready"}

\* C1: after the initial load, activeSessionId is non-null and is the id of
\* exactly one session of the in-memory collection.
ActiveIsExactlyOneSession ==
    Loaded => /\ activeSessionId # NullId
              /\ Len(WithId(sessions, activeSessionId)) = 1

\* C2: deleting the active session while another session remains removes
\* it and makes active a remaining session whose createdAt is the greatest.
DeleteActivePromotesNewest ==
    [][(/\ lastOp'.op = "delete"
        /\ lastOp'.id = activeSessionId
        /\ WithoutId(sessions, lastOp'.id) # <<>>)
       => /\ sessions' = WithoutId(sessions, lastOp'.id)
          /\ \E i \in 1..Len(sessions') :
                /\ sessions'[i].id = activeSessionId'
                /\ \A j \in 1..Len(sessions') :
                      sessions'[j].createdAt <= sessions'[i].createdAt]_vars

PromotedAmongSeveral ==
    /\ lastOp.op = "delete"
    /\ lastOp.info = "promote"
    /\ \E i, j \in 1..Len(sessions) : sessions[i].createdAt < sessions[j].createdAt

\* C3: deleting the only session of the collection leaves exactly one
\* session, new (title 'New Chat', the welcome message alone, owned by the
\* current user), and active.
DeleteLastSeedsNew ==
    [][(/\ lastOp'.op = "delete"
        /\ Len(sessions) = 1
        /\ sessions[1].id = lastOp'.id)
       => /\ Len(sessions') = 1
          /\ sessions'[1].title = NewChatTitle
          /\ sessions'[1].messages = <<WELCOME_MESSAGE>>
          /\ sessions'[1].userId = userId
          /\ activeSessionId' = sessions'[1].id]_vars

DeletedTheLast ==
    /\ lastOp.op = "delete"
    /\ lastOp.info = "last"
    /\ Len(sessions) = 1

\* C4: the context set never contains the id of the active session.
ContextExcludesActive == activeSessionId \notin contextSessionIds

\* C5: after deleteChatSession(id), id is not in the context set, and every
\* id of the context set is the id of a session of the collection.
ContextIdsExist ==
    /\ lastOp.op = "delete" => lastOp.id \notin contextSessionIds
    /\ contextSessionIds \subseteq Ids(sessions)

DeletedAContextSession ==
    /\ lastOp.op = "delete"
    /\ lastOp.inContext
    /\ contextSessionIds # {}

ActiveSession == Head(WithId(sessions, activeSessionId))

ContextIndices == {i \in 1..Len(sessions) : sessions[i].id \in contextSessionIds}

RECURSIVE SumOver(_, _)
SumOver(S, f) ==
    IF S = {} THEN 0
    ELSE LET x == CHOOSE y \in S : TRUE IN f[x] + SumOver(S \ {x}, f)

\* C6: the history handed to the chat API holds no welcome message: from
\* the active session and from each context session it takes the
\* messages at positions 2..n, and nothing else.
WelcomeExcluded ==
    geminiSession.live =>
        LET h == geminiSession.history
            rest == [i \in 1..Len(sessions) |-> Len(sessions[i].messages) - 1]
        IN  /\ \A k \in 1..Len(h) : h[k].parts # WELCOME_MESSAGE.parts
            /\ Len(h) = SumOver(ContextIndices, rest) + Len(ActiveSession.messages) - 1

HistoryFromContextAndActive ==
    /\ geminiSession.live
    /\ Len(ActiveSession.messages) > 1
    /\ \E i \in ContextIndices :
          sessions[i].id # activeSessionId /\ Len(sessions[i].messages) > 1

\* The non-welcome messages of session i as API contents
NonWelcome(s) ==
    [k \in 1..(Len(s.messages) - 1) |->
        [role |-> s.messages[k + 1].role, parts |-> s.messages[k + 1].parts]]

RECURSIVE ContextFrom(_)
ContextFrom(i) ==
    IF i > Len(sessions) THEN <<>>
    ELSE (IF i \in ContextIndices THEN NonWelcome(sessions[i]) ELSE <<>>)
         \o ContextFrom(i + 1)

\* C7: the history is the non-welcome messages of the context sessions in
\* the order of the collection, followed by those of the active session.
HistoryInCollectionOrder ==
    geminiSession.live =>
        geminiSession.history = ContextFrom(1) \o NonWelcome(ActiveSession)

TwoContextSessionsWithHistory ==
    /\ geminiSession.live
    /\ \E i, j \in ContextIndices :
          /\ i < j
          /\ Len(sessions[i].messages) > 1
          /\ Len(sessions[j].messages) > 1
          /\ NonWelcome(sessions[i]) # NonWelcome(sessions[j])

OtherUsersKept ==
    [][/\ storage'.readable = storage.readable
       /\ NotOwnedBy(storage'.doc, User) = NotOwnedBy(storage.doc, User)]_vars

SavedBesideOtherUser ==
    /\ pc = "ready"
    /\ lastSave = "written"
    /\ lastOp.op = "append"
    /\ NotOwnedBy(storage.doc, User) # <<>>
    /\ OwnedBy(storage.doc, User) # <<>>

\* C10 as stated: once the save step following a change has run, the
\* user's stored sessions equal the in-memory collection, also after a
\* load that fell back to a fresh session.
StoredEqualsMemory ==
    pc = "ready" => OwnedBy(storage.doc, userId) = sessions

\* C10 amended: this holds when the save step has written the document;
\* when the document cannot be read or parsed (a load that fell back
\* through its catch) or the write fails, the save step writes nothing.
StoredEqualsMemoryWhenWritten ==
    pc = "ready" =>
        IF lastSave = "written"
        THEN OwnedBy(storage.doc, userId) = sessions
        ELSE storage \in InitialDocuments /\ (~storage.readable \/ ~writable)

SavedAfterFallback ==
    /\ pc = "ready"
    /\ lastOp.op = "load"
    /\ lastOp.info = "fallback"
    /\ lastSave = "written"
    /\ OwnedBy(storage.doc, userId) = sessions

\* C11: updateSessionTitle(id, t) with a blank t leaves the collection as
\* it is; otherwise the sessions with that id get t without its leading
\* and trailing white space as title, and nothing else changes.
RenameSetsTrimmedTitle ==
    [][lastOp'.op = "rename" =>
        LET t == lastOp'.arg
            blank == \A k \in 1..Len(t) : t[k] \in WhiteSpace
        IN  IF blank THEN sessions' = sessions
            ELSE /\ Len(sessions') = Len(sessions)
                 /\ \A i \in 1..Len(sessions) :
                       IF sessions[i].id # lastOp'.id THEN sessions'[i] = sessions[i]
                       ELSE \E a, b \in 1..Len(t) :
                              /\ t[a] \notin WhiteSpace /\ t[b] \notin WhiteSpace
                              /\ \A k \in 1..Len(t) : (k < a \/ k > b) => t[k] \in WhiteSpace
                              /\ sessions'[i] = [sessions[i] EXCEPT !.title = SubSeq(t, a, b)]]_vars

RenamedWithWhiteSpace ==
    /\ lastOp.op = "rename"
    /\ lastOp.info = "set"
    /\ Len(lastOp.arg) = 5
    /\ \E i \in 1..Len(sessions) : sessions[i].title = <<"a", " ", "b">>
    /\ \E i \in 1..Len(sessions) : sessions[i].id # lastOp.id

\* The first non-empty display text of the only user message, if any
OnlyUserText(msgs) == FirstText(UserMessages(msgs)[1].displayParts)

\* C12: when an update leaves a 'New Chat'-titled session with exactly one
\* user message, the title is that message's first non-empty display text:
\* cut to 35 characters with '...' appended if longer, verbatim otherwise,
\* and 'New Chat' if there is none.
AutoTitleFromFirstUserMessage ==
    [][lastOp'.op = "append" =>
        \A i \in 1..Len(sessions) :
            (/\ sessions[i].id = lastOp'.id
             /\ sessions[i].title = NewChatTitle
             /\ Len(UserMessages(sessions'[i].messages)) = 1)
            => LET text == OnlyUserText(sessions'[i].messages)
               IN  sessions'[i].title =
                     IF Len(text) > 35 THEN SubSeq(text, 1, 35) \o <<".", ".", ".">>
                     ELSE IF Len(text) > 0 THEN text
                     ELSE <<"N", "e", "w", " ", "C", "h", "a", "t">>]_vars

TitleCutToLimit ==
    /\ lastOp.op = "append"
    /\ \E i \in 1..Len(sessions) :
          /\ sessions[i].id = lastOp.id
          /\ Len(UserMessages(sessions[i].messages)) = 1
          /\ Len(OnlyUserText(sessions[i].messages)) = 36
          /\ Len(sessions[i].title) = 38

\* C13: an update of the messages of a session that has just been renamed
\* by hand to a non-blank title leaves that title as it is.
ManualTitleKept ==
    [][(lastOp.op = "rename" /\ lastOp.info = "set" /\ lastOp'.op = "append")
        => \A i \in 1..Len(sessions) :
              sessions[i].id = lastOp.id => sessions'[i].title = sessions[i].title]_vars

\* C17: toggleContextSession(x) adds x to the context set if absent and
\* removes it if present, changes neither the collection nor the active
\* id, and applied twice gives back the context set it started from.
ToggleTwiceIsIdentity ==
    [][lastOp'.op = "toggle" =>
        LET x == lastOp'.id
        IN  /\ x \in contextSessionIds => contextSessionIds' = contextSessionIds \ {x}
            /\ x \notin contextSessionIds => contextSessionIds' = contextSessionIds \cup {x}
            /\ sessions' = sessions
            /\ activeSessionId' = activeSessionId
            /\ ToggleSet(contextSessionIds', x) = contextSessionIds
            /\ \A C \in SUBSET ToggleIds : \A y \in ToggleIds :
                  ToggleSet(ToggleSet(C, y), y) = C]_vars

ToggledOffAmongOthers ==
    /\ lastOp.op = "toggle"
    /\ lastOp.id \notin contextSessionIds
    /\ lastOp.id \notin Ids(sessions)
    /\ contextSessionIds # {}

\* C18: when the stored document cannot be read or parsed, the load
\* completes and leaves exactly one new seeded session, owned by the
\* current user and active.
LoadFailureSeedsNew ==
    /\ [](pc = "mount" => ENABLED Mount)
    /\ [][(pc = "mount" /\ ~storage.readable /\ pc' # "mount")
            => /\ Len(sessions') = 1
               /\ sessions'[1].title = NewChatTitle
               /\ sessions'[1].messages = <<WELCOME_MESSAGE>>
               /\ sessions'[1].userId = userId
               /\ activeSessionId' = sessions'[1].id
               /\ activeSessionId' # NullId]_vars

LoadedFromUnreadable ==
    /\ pc = "ready"
    /\ ~storage.readable
    /\ lastOp.op = "load"
    /\ lastOp.info = "fallback"
    /\ Len(sessions) = 1

\* C20: startNewChat() on a non-empty collection puts a new session
\* ('New Chat', the welcome message alone, owned by the current user) at
\* index 0, keeps the previous sessions unchanged and in order behind it,
\* makes the new session active and returns its id.
NewChatAtFront ==
    [][(lastOp'.op = "new" /\ sessions # <<>>)
        => /\ Len(sessions') = Len(sessions) + 1
           /\ sessions'[1].title = NewChatTitle
           /\ sessions'[1].messages = <<WELCOME_MESSAGE>>
           /\ sessions'[1].userId = userId
           /\ \A i \in 1..Len(sessions) : sessions'[i + 1] = sessions[i]
           /\ activeSessionId' = sessions'[1].id
           /\ lastOp'.id = sessions'[1].id]_vars

NewChatBeforeTwo ==
    /\ lastOp.op = "new"
    /\ Len(sessions) = 3
    /\ sessions[2] # sessions[3]
    /\ Len(sessions[3].messages) > 1

\* The session a generation was sent in: sessions are only prepended
\* while it is in flight, so it is the last one with the target's id.
LastWithId(ss, id) == WithId(ss, id)[Len(WithId(ss, id))]

\* C14: a chat send adds the user message and one empty placeholder to
\* the target session; until the stream ends the session keeps that
\* number of messages, all but the last unchanged, and the last one holds
\* the text of the last chunk that carried text.
StreamKeepsOnePlaceholder ==
    [][/\ (lastOp'.op = "send" /\ lastOp'.info = "chat") =>
            LET old == LastWithId(sessions, lastOp'.id).messages
                new == LastWithId(sessions', lastOp'.id).messages
            IN  /\ Len(new) = Len(old) + 2
                /\ SubSeq(new, 1, Len(old)) = old
                /\ new[Len(new) - 1].role = "user"
                /\ new[Len(new)].role = "model"
                /\ new[Len(new)].displayParts = <<TextPart(<<>>)>>
       /\ (gen.kind = "chat" /\ lastOp'.op # "error") =>
            /\ WithId(sessions', gen.target) # <<>>
            /\ LET old == LastWithId(sessions, gen.target).messages
                   new == LastWithId(sessions', gen.target).messages
                   last == new[Len(new)]
               IN  /\ Len(new) = Len(old)
                   /\ \A k \in 1..(Len(old) - 1) : new[k] = old[k]
                   /\ last.role = "model"
                   /\ last.timestamp = old[Len(old)].timestamp
                   /\ last.displayParts =
                        <<TextPart(IF lastOp'.op = "chunk" /\ lastOp'.arg # <<>>
                                   THEN lastOp'.arg
                                   ELSE old[Len(old)].displayParts[1].text)>>]_vars

\* C15: an update or the result of a generation in flight changes the
\* session that was active when the message was sent, and no other one.
GenerationUpdatesOnlyTarget ==
    [][lastOp'.op \in {"chunk", "progress", "result", "error"} =>
        /\ Len(sessions') = Len(sessions)
        /\ \A i \in 1..Len(sessions) :
              sessions[i].id # gen.target => sessions'[i] = sessions[i]
        /\ Cardinality({i \in 1..Len(sessions) : sessions'[i] # sessions[i]}) <= 1]_vars

\* C16: in every session the timestamps of the messages are pairwise
\* different.
TimestampsUniqueInSession ==
    \A i \in 1..Len(sessions) :
        \A j, k \in 1..Len(sessions[i].messages) :
            j # k => sessions[i].messages[j].timestamp # sessions[i].messages[k].timestamp

SessionIdsUnique ==
    \A i, j \in 1..Len(sessions) : i # j => sessions[i].id # sessions[j].id

\* C22: in every state at rest with a key configured, the handle is live,
\* carries the current search flag, and its history is the one assembled
\* from the current collection, context set and active session.
HandleIsCurrent ==
    (pc = "ready" /\ apiKey) =>
        /\ geminiSession.live
        /\ geminiSession.webSearch = webSearchEnabled
        /\ geminiSession.history = ContextFrom(1) \o NonWelcome(ActiveSession)

SwitchedWithSearchAndContext ==
    /\ pc = "ready"
    /\ apiKey
    /\ lastOp.op = "switch"
    /\ webSearchEnabled
    /\ contextSessionIds # {}
    /\ Len(ActiveSession.messages) > 1
    /\ Len(geminiSession.history) > Len(ActiveSession.messages) - 1

LastWriteWins ==
    [][/\ NotOwnedBy(storage'.doc, User) = NotOwnedBy(storage.doc, User)
       /\ (tab' = tab /\ pc' = "ready" /\ lastSave' = "written")
            => OwnedBy(storage'.doc, User) = sessions'
       /\ (tab' # tab /\ tab'.pc = "ready" /\ storage.readable /\ writable)
            => OwnedBy(storage'.doc, User) = tab'.sessions]_vars

OtherTabsSessionDropped ==
    /\ lastOp.op = "tab-new"
    /\ pc = "ready"
    /\ NotOwnedBy(storage.doc, User) # <<>>
    /\ OwnedBy(storage.doc, User) = tab.sessions
    /\ \E i \in 1..Len(sessions) :
          \A j \in 1..Len(tab.sessions) : tab.sessions[j] # sessions[i]
    /\ \E j \in 1..Len(tab.sessions) :
          \A i \in 1..Len(sessions) : tab.sessions[j] # sessions[i]

OneGenerationInFlight ==
    /\ [](~(gen.kind # "none" /\ late.state = "streaming"))
    /\ [][(isLoading /\ lastOp'.op = "send") => sessions' = sessions]_vars

\* C26: a generation that was started is followed by a state in which
\* isLoading is false; a failure ends the generation and resets isLoading,
\* and a step of an upstream call is taken only for a generation that a
\* send has started and that has not ended.
LoadingEnds ==
    /\ isLoading ~> ~isLoading
    /\ [][/\ lastOp'.op \in {"error", "result", "done"} => (~isLoading' /\ gen' = NoGen)
          /\ lastOp'.op \in {"chunk", "progress", "result", "done", "error"}
                => (isLoading /\ gen.kind # "none")
          /\ (gen.kind = "none" /\ gen'.kind # "none") => lastOp'.op = "send"]_vars

FailedAndReleased ==
    /\ lastOp.op = "error"
    /\ lastOp.info = "image"
    /\ ~isLoading
    /\ gen = NoGen
    /\ \E i \in 1..Len(sessions) :
          sessions[i].messages[Len(sessions[i].messages)].isError

\* C27: the first message of every session of the collection is the
\* seeded welcome message.
WelcomeIsFirst ==
    \A i \in 1..Len(sessions) :
        /\ sessions[i].messages # <<>>
        /\ sessions[i].messages[1] = WELCOME_MESSAGE

\* C28: between the load of a user's stored sessions and the first save
\* of the loaded collection, the stored document holds all of them.
StoredSessionsSurviveMount ==
    (pc = "rerender" /\ lastOp.op = "load" /\ lastOp.info = "loaded")
        => OwnedBy(storage.doc, userId) = sessions

\* Two emails that differ at most in the case of their letters
EqualIgnoringCase(a, b) ==
    /\ Len(a) = Len(b)
    /\ \A k \in 1..Len(a) :
          \/ a[k] = b[k]
          \/ {a[k], b[k]} \in {{"a", "A"}, {"b", "B"}, {"x", "X"}}

\* C30: no two records of the users list have the same email up to case;
\* a signUp with an email of the list, and a Google sign-in with the email
\* of a password account, leave the list and the current user as they are
\* and set an error.
EmailsUniqueIgnoringCase ==
    /\ [](\A i, j \in 1..Len(auth.users) :
            i # j => ~EqualIgnoringCase(auth.users[i].email, auth.users[j].email))
    /\ [][/\ (/\ lastOp'.op = "signup"
              /\ \E i \in 1..Len(auth.users) :
                    EqualIgnoringCase(auth.users[i].email, lastOp'.arg))
             => /\ auth'.users = auth.users
                /\ auth'.user = auth.user
                /\ auth'.authError # NoAuthError
          /\ (/\ lastOp'.op = "google"
              /\ \E i \in 1..Len(auth.users) :
                    /\ EqualIgnoringCase(auth.users[i].email, lastOp'.arg)
                    /\ ~auth.users[i].isGoogleUser)
             => /\ auth'.users = auth.users
                /\ auth'.user = auth.user
                /\ auth'.authError # NoAuthError]_vars

GoogleRefusedForPasswordAccount ==
    /\ lastOp.op = "google"
    /\ lastOp.info = "password-account"
    /\ auth.authError # NoAuthError
    /\ auth.user.isGoogleUser
    /\ \E i \in 1..Len(auth.users) :
          /\ ~auth.users[i].isGoogleUser
          /\ auth.users[i].email # lastOp.arg
          /\ EqualIgnoringCase(auth.users[i].email, lastOp.arg)

====
